---- MODULE Spec2Model ----
(***************************************************************************)
(* Model of the emotion-model training, optimisation and integration       *)
(* scripts under src/training.                                              *)
(*                                                                          *)
(*   SpecTrain    one training loop (text, audio, multimodal, TTS)          *)
(*   SpecMain     emotion_trainer.main driving the classifier stages        *)
(*   SpecWrapper  ProductionModelWrapper: optimize_model and predict        *)
(*   SpecDeploy   ModelIntegrator.deploy_to_production, then the file test  *)
(*   SpecTests    IntegrationTester.run_all_tests                           *)
(*   SpecService  ProductionEmotionService.detect_emotion_*                 *)
(*   SpecBridge   emotion_service_wrapper.main, one invocation              *)
(*   SpecCleanup  cleanup.cleanup_training_files                            *)
(*   SpecBalance  EmotionDataProcessor.create_balanced_dataset              *)
(*   SpecData     data_processor.main with --download                        *)
(*   SpecLoad     ModelIntegrator.load_and_optimize_models                  *)
(***************************************************************************)
EXTENDS Integers, Sequences, FiniteSets, TLC

\* ---------------------------------------------------------------- bounds
MaxEpochs == 3
MaxPatience == 2
MaxAcc == 2
MaxCalls == 2
NumInputs == 4
HashBits == 2

\* ------------------------------------------------------ program constants
\* emotion_trainer.py:494  num_epochs = 3
NumEpochsMultimodal == 3

VARIABLES
  \* --- emotion_trainer.main
  mode,              \* args.mode
  mpc,               \* position of main
  exit_code,         \* -1 while running, 0 normal return, 1 sys.exit(1)
  log,               \* stage-level logger messages, in order
  cfg_epochs,        \* config[<model>]['epochs'], per loop kind
  \* --- the running training loop
  loop,              \* which train_* method is executing
  lpc,               \* its position
  patience,          \* config['training']['early_stopping_patience']
  epoch,             \* number of epochs completed
  patience_counter,
  best_val_acc,
  val_accuracies,
  best_val_loss,
  val_losses,
  stopped,           \* how the for loop was left
  loaded,            \* state dict loaded for the final evaluation
  pretrained,        \* state dicts loaded into the multimodal submodules
  files,             \* models_dir: file name -> content
  \* --- ProductionModelWrapper
  model_type,
  OPTIMIZATION_AVAILABLE,
  faults,            \* library calls that raise in this environment
  wpc,               \* "new", "ready" (optimize_model returned), "raised"
  optimization_level,
  optimized_model,
  quantized_model,
  onnx_session,
  inference_times,
  prediction_cache,
  warnings,          \* logger.warning messages of the wrapper
  attempts,          \* library calls made by optimize_model, in order
  calls,             \* predict calls made so far, with their outcome
  \* --- deployment and integration tests
  paths,             \* files and directories that exist outside models_dir
  production_models, \* ModelIntegrator.production_models: name -> wrapper
  dpc,               \* deploy_to_production: "none", "returned", "raised"
  mock_server,       \* IntegrationTester.mock_server
  server_up,         \* some endpoint answers check_server_status
  tpc,               \* position of run_all_tests
  ran,               \* names of the tests started, in order
  results,           \* run_all_tests: the results list
  outcomes,          \* how each test call ended: "True", "False", "raised"
  test_results,      \* test_model_endpoints: collected per endpoint
  sample,            \* index of the next request of the current endpoint loop
  rc,                \* value returned by run_all_tests, -1 before
  \* --- ProductionEmotionService
  svc_calls,         \* number of detect_emotion_* calls made
  svc_last,          \* the last call: method, arguments, how it ended
  svc_errors,        \* logger.error messages of the service
  \* --- emotion_service_wrapper
  SERVICE_AVAILABLE,
  argv,              \* sys.argv of the invocation
  stdout,            \* the objects printed as JSON, in order
  bpc,               \* "start", "returned", "exit1", "raised"
  bridge_calls,      \* service methods called by main, in order
  \* --- cleanup
  dry_run,
  tree,              \* base_dir: entry -> "absent", "file" or "dir"
  tree0,             \* the tree when cleanup_training_files was called
  age,               \* days since st_mtime, per entry
  cpc,               \* "start", "loop", "done"
  to_remove,
  item,              \* index of the next item of the for loop
  removed,
  skipped,
  clean_log,         \* logger messages of the for loop, in order
  \* --- EmotionDataProcessor.create_balanced_dataset
  df,                \* the input frame: a sequence of rows
  max_samples_per_class,
  todo,              \* the emotions the for loop has still to visit
  balanced_dfs,
  balanced_df,       \* the frame returned
  bal_pc,            \* "start", "loop", "returned", "raised", "skipped"
  data_splits,       \* train, val and test: index labels of the rows of df
  data_pc,           \* data_processor.main: "try", "prepared", "exit1"
  \* --- ModelIntegrator.load_and_optimize_models
  load_level,        \* the optimization_level argument
  load_faults,       \* per model, the step that raises in this environment
  parameters,        \* per model object, the weights its tensors hold
  quantized_weights, \* per model, the weights copied by quantize_dynamic
  load_pc,           \* index of the next model, "multimodal", "done", "raised"
  load_log           \* logger messages of the call, in order

trainVars == <<loop, lpc, patience, epoch, patience_counter, best_val_acc,
               val_accuracies, best_val_loss, val_losses, stopped, loaded,
               pretrained>>
mainVars == <<mode, mpc, exit_code, log, cfg_epochs>>
wrapVars == <<model_type, OPTIMIZATION_AVAILABLE, faults, wpc, optimization_level,
              optimized_model, quantized_model, onnx_session, inference_times,
              prediction_cache, warnings, attempts, calls>>
deployVars == <<production_models, dpc>>
testVars == <<mock_server, server_up, tpc, ran, results, outcomes, test_results,
              sample, rc>>
svcVars == <<svc_calls, svc_last, svc_errors>>
bridgeVars == <<SERVICE_AVAILABLE, argv, stdout, bpc, bridge_calls>>
\* the stand-alone scripts
cleanVars == <<dry_run, tree, tree0, age, cpc, to_remove, item, removed, skipped,
               clean_log>>
dataVars == <<df, max_samples_per_class, todo, balanced_dfs, balanced_df, bal_pc,
              data_splits, data_pc>>
loadVars == <<load_level, load_faults, parameters, quantized_weights, load_pc,
              load_log>>
scriptVars == <<bridgeVars, cleanVars, dataVars, loadVars>>
vars == <<mode, mpc, exit_code, log, cfg_epochs, loop, lpc, patience, epoch,
          patience_counter, best_val_acc, val_accuracies, best_val_loss,
          val_losses, stopped, loaded, pretrained, files, wrapVars, paths,
          deployVars, testVars, svcVars, scriptVars>>

\* what the trainer scripts leave alone
outsideTrainer == <<wrapVars, paths, deployVars, testVars, svcVars, scriptVars>>
\* what the wrapper leaves alone
outsideWrapper == <<mainVars, trainVars, files, paths, deployVars, testVars, svcVars,
                   scriptVars>>
\* what deployment and the integration tests leave alone
outsideIntegration == <<mainVars, trainVars, files, wrapVars, svcVars, scriptVars>>
\* what the emotion service leaves alone
outsideService == <<mainVars, trainVars, files, wrapVars, paths, deployVars, testVars,
                   scriptVars>>
\* what the bridge script leaves alone
outsideBridge == <<mainVars, trainVars, files, wrapVars, paths, deployVars, testVars,
                  svcVars, cleanVars, dataVars, loadVars>>
\* what cleanup leaves alone
outsideCleanup == <<mainVars, trainVars, files, wrapVars, paths, deployVars, testVars,
                   svcVars, bridgeVars, dataVars, loadVars>>
\* what the data processor leaves alone
outsideData == <<mainVars, trainVars, files, wrapVars, paths, deployVars, testVars,
                svcVars, bridgeVars, cleanVars, loadVars>>
\* what load_and_optimize_models leaves alone: everything but the files of
\* models_dir, OPTIMIZATION_AVAILABLE and production_models, which it reads
\* or writes
outsideLoad == <<mainVars, trainVars, model_type, faults, wpc, optimization_level,
                optimized_model, quantized_model, onnx_session, inference_times,
                prediction_cache, warnings, attempts, calls, paths, dpc, testVars,
                svcVars, bridgeVars, cleanVars, dataVars>>

\* ------------------------------------------------------------ file system
Classifiers == {"text", "audio", "multimodal"}
LoopKinds == Classifiers \cup {"tts"}

\* the checkpoint each loop saves and reloads
BestFile(k) ==
  CASE k = "text" -> "best_text_emotion_model.pth"
    [] k = "audio" -> "best_audio_emotion_model.pth"
    [] k = "multimodal" -> "best_multimodal_emotion_model.pth"
    [] k = "tts" -> "best_emotion_aware_tts.pth"

HistoryFile(k) ==
  CASE k = "text" -> "text_emotion_training_history.json"
    [] k = "audio" -> "audio_emotion_training_history.json"
    [] k = "multimodal" -> "multimodal_emotion_training_history.json"
    [] k = "tts" -> "tts_training_history.json"

\* name passed to save_model_artifacts by main
ArtifactName(k) ==
  CASE k = "text" -> "text_emotion_model"
    [] k = "audio" -> "audio_emotion_model"
    [] k = "multimodal" -> "multimodal_emotion_model"
    [] k = "tts" -> "emotion_aware_tts"

ArtifactFile(k) ==
  CASE k = "text" -> "text_emotion_model.pth"
    [] k = "audio" -> "audio_emotion_model.pth"
    [] k = "multimodal" -> "multimodal_emotion_model.pth"
    [] k = "tts" -> "emotion_aware_tts.pth"

FileNames == {BestFile(k) : k \in LoopKinds} \cup {HistoryFile(k) : k \in LoopKinds}
             \cup {ArtifactFile(k) : k \in LoopKinds}

\* content of a file: who wrote it and at which epoch of the writing loop
Absent == [run |-> "none", epoch |-> 0]
Stale == [run |-> "previous", epoch |-> 0]
Written(e) == [run |-> "this", epoch |-> e]
NoState == [run |-> "init", epoch |-> 0]

\* ------------------------------------------------------------- TTS losses
NaN == 0 - 1
Inf == MaxAcc + 1
Losses == 0 .. MaxAcc
Accs == 0 .. MaxAcc

\* IEEE comparison: any comparison with NaN is false
LossLess(a, b) == a # NaN /\ b # NaN /\ a < b

\* elements of a sequence
Range(q) == {q[i] : i \in 1 .. Len(q)}

\* ================================================ ProductionModelWrapper
None == "None"
ModelTypes == {"text_emotion", "audio_emotion", "multimodal", "emotion_tts"}
\* the model types _export_to_onnx builds a dummy input for
OnnxTypes == {"text_emotion", "audio_emotion", "multimodal"}
Levels == {"light", "medium", "aggressive"}
LibraryCalls == {"script", "quantize", "onnx"}
Inputs == 1 .. NumInputs
NoResult == [model |-> None, input |-> 0]

\* no wrapper is followed on its own
WrapperIdle ==
  /\ model_type = None
  /\ faults = {}
  /\ wpc = "none"
  /\ optimization_level = None
  /\ optimized_model = None
  /\ quantized_model = None
  /\ onnx_session = None
  /\ inference_times = <<>>
  /\ prediction_cache = <<>>
  /\ warnings = <<>>
  /\ attempts = <<>>
  /\ calls = <<>>

\* no wrapper exists
WrapperUnused ==
  /\ WrapperIdle
  /\ OPTIMIZATION_AVAILABLE = FALSE

\* ======================================= deployment and integration tests
\* number of text samples, audio samples and expected emotions
NumSamples == 5

\* a path is <<directory, stem, suffix>>; the directory itself has no stem
ProdDir == <<"../server/src/models/production", "", "">>
ProdFile(stem, suffix) == <<"../server/src/models/production", stem, suffix>>
ServiceFile == <<"../server/src/services/production", "production_emotion_service", ".py">>
DeploymentConfig == <<"deployment", "models_config", ".json">>
ResultsDir == <<"integration_results", "", "">>
ResultsFile == <<"integration_results", "api_test_results", ".json">>

NoWrapper == "absent"
\* a registered wrapper came out of optimize_model with a quantized model
\* or with an optimized model only
WrapperStates == {"quantized", "optimized"}

EndpointKinds == <<"text_only", "audio_only", "multimodal">>
NoResults == [k \in Range(EndpointKinds) |-> [n |-> 0, correct |-> 0]]

\* neither deployment nor the integration tests have started
IntegrationIdle ==
  /\ paths = {}
  /\ dpc = "none"
  /\ mock_server = FALSE
  /\ server_up = FALSE
  /\ tpc = "none"
  /\ ran = <<>>
  /\ results = <<>>
  /\ outcomes = <<>>
  /\ test_results = NoResults
  /\ sample = <<0, 0>>
  /\ rc = 0 - 1

IntegrationUnused ==
  /\ IntegrationIdle
  /\ production_models = [m \in ModelTypes |-> NoWrapper]

\* ============================================== ProductionEmotionService
emotion_labels ==
  <<"happiness", "sadness", "neutral", "anger", "love", "fear", "disgust",
    "confusion", "surprise", "shame", "guilt", "sarcasm", "desire">>

NoCall == [method |-> None]

ServiceUnused ==
  /\ svc_calls = 0
  /\ svc_last = NoCall
  /\ svc_errors = <<>>

\* ============================================== emotion_service_wrapper
\* the script has not been started
BridgeUnused ==
  /\ SERVICE_AVAILABLE = FALSE
  /\ argv = <<>>
  /\ stdout = <<>>
  /\ bpc = "none"
  /\ bridge_calls = <<>>

\* ================================================================ cleanup
\* bound: the oldest log file, in days
MaxAgeDays == 31

\* an entry below base_dir: the directory it is in, and its name in three parts
Entry(dir, prefix, stem, suffix) ==
  [dir |-> dir, prefix |-> prefix, stem |-> stem, suffix |-> suffix]

\* the name of an entry relative to base_dir
FullName(e) ==
  IF e.dir = "" THEN e.prefix \o e.stem \o e.suffix
  ELSE e.dir \o "/" \o e.prefix \o e.stem \o e.suffix

\* the entries of base_dir the model follows
Entries ==
  {Entry("data", "", "raw", ""), Entry("data/raw", "", "emotions", ".csv"),
   Entry("models", "", "text_emotion_model", ".pth"),
   Entry("models", "", "audio_emotion_model", ".pth"),
   Entry("models", "", "multimodal_emotion_model", ".pth"),
   Entry("models", "best_", "text_emotion_model", ".pth"),
   Entry("models", "", "text_emotion_model_config", ".json"),
   Entry("evaluation_results", "", "evaluation_report", ".json"),
   Entry("deployment", "", "models_config", ".json"),
   Entry("", "", "cache", ""), Entry("", "", "__pycache__", ""),
   Entry("", "", "logs", ""), Entry("logs", "", "training", ".log"),
   Entry("logs", "", "evaluation", ".log"), Entry("logs", "", "notes", ".txt")}

\* cleanup_training_files has not been called
CleanupUnused ==
  /\ dry_run = FALSE
  /\ tree = [e \in Entries |-> "absent"]
  /\ tree0 = [e \in Entries |-> "absent"]
  /\ age = [e \in Entries |-> 0]
  /\ cpc = "none"
  /\ to_remove = <<>>
  /\ item = 0
  /\ removed = 0
  /\ skipped = 0
  /\ clean_log = <<>>

\* ================================================== EmotionDataProcessor
\* bounds: rows of the input frame, and max_samples_per_class
MaxRows == 4
MaxSamples == 2
\* bounds of the main pipeline: rows after preprocessing, and --max-samples
MaxTexts == 2
MaxPerClass == 3

\* no split has been made
NoSplits == [train |-> {}, val |-> {}, test |-> {}]

\* create_balanced_dataset has not been called
DataUnused ==
  /\ df = <<>>
  /\ max_samples_per_class = 0
  /\ todo = <<>>
  /\ balanced_dfs = <<>>
  /\ balanced_df = <<>>
  /\ bal_pc = "none"
  /\ data_splits = NoSplits
  /\ data_pc = "none"

\* ============================ ModelIntegrator.load_and_optimize_models
\* lines 308-324: the keys of model_configs, in order
ConfiguredModels == <<"text_emotion", "audio_emotion", "emotion_tts">>

\* the steps of loading one model that can raise
LoadSteps == {"construct", "load_state_dict", "script", "quantize"}

\* the entries of the state dict saved in a file that start with a prefix
StateDict(file, part) == [file |-> file, part |-> part]

\* the weights of a model object nothing was loaded into
Untrained == StateDict(None, None)

\* load_and_optimize_models has not been called
LoadUnused ==
  /\ load_level = None
  /\ load_faults = [m \in ModelTypes |-> None]
  /\ parameters = [m \in ModelTypes |-> Untrained]
  /\ quantized_weights = [m \in ModelTypes |-> Untrained]
  /\ load_pc = "none"
  /\ load_log = <<>>

\* none of the stand-alone scripts has been started
ScriptsUnused ==
  /\ BridgeUnused
  /\ CleanupUnused
  /\ DataUnused
  /\ LoadUnused

\* ========================================================= training loops
\* lines 271-278: best_val_acc = 0, patience_counter = 0, empty histories
StartLoop(k, n, p) ==
  /\ loop' = k
  /\ patience' = p
  /\ epoch' = 0
  /\ patience_counter' = 0
  /\ best_val_acc' = 0
  /\ val_accuracies' = <<>>
  /\ best_val_loss' = Inf
  /\ val_losses' = <<>>
  /\ stopped' = IF n = 0 THEN "exhausted" ELSE "running"
  /\ lpc' = IF n = 0 THEN "load" ELSE "loop"
  /\ loaded' = NoState

\* number of iterations of the for loop of the running method
LoopEpochs == IF loop = "multimodal" THEN NumEpochsMultimodal ELSE cfg_epochs[loop]

\* off-by-one variant of the early-stopping test
BreakTest_gt(counter, p) == counter > p

\* the early-stopping test made after an epoch that did not improve
BreakTest(counter, p) == counter >= p

\* variant that also saves on a tie
AccImproved_ge(v, best) == v >= best

\* the improvement test of the classifier loops
AccImproved(v, best) == v > best

\* one iteration of `for epoch in range(...)` of a classifier loop
ClassifierEpoch(val_acc) ==
  /\ lpc = "loop"
  /\ loop \in Classifiers
  /\ epoch < LoopEpochs
  /\ epoch' = epoch + 1
  /\ val_accuracies' = Append(val_accuracies, val_acc)
  /\ IF AccImproved(val_acc, best_val_acc)
       THEN /\ best_val_acc' = val_acc
            /\ patience_counter' = 0
            /\ files' = [files EXCEPT ![BestFile(loop)] = Written(epoch + 1)]
            /\ stopped' = IF epoch + 1 = LoopEpochs THEN "exhausted" ELSE "running"
       ELSE /\ best_val_acc' = best_val_acc
            /\ patience_counter' = patience_counter + 1
            /\ files' = files
            /\ stopped' = IF BreakTest(patience_counter + 1, patience) THEN "early"
                          ELSE IF epoch + 1 = LoopEpochs THEN "exhausted"
                          ELSE "running"
  /\ lpc' = IF stopped' = "running" THEN "loop" ELSE "load"
  /\ UNCHANGED <<loop, patience, best_val_loss, val_losses, loaded, pretrained>>
  /\ UNCHANGED mainVars
  /\ UNCHANGED outsideTrainer

\* the improvement test of the TTS loop
LossImproved(v, best) == LossLess(v, best)

\* one iteration of the TTS loop
TTSEpoch(val_loss) ==
  /\ lpc = "loop"
  /\ loop = "tts"
  /\ epoch < LoopEpochs
  /\ epoch' = epoch + 1
  /\ val_losses' = Append(val_losses, val_loss)
  /\ IF LossImproved(val_loss, best_val_loss)
       THEN /\ best_val_loss' = val_loss
            /\ patience_counter' = 0
            /\ files' = [files EXCEPT ![BestFile(loop)] = Written(epoch + 1)]
            /\ stopped' = IF epoch + 1 = LoopEpochs THEN "exhausted" ELSE "running"
       ELSE /\ best_val_loss' = best_val_loss
            /\ patience_counter' = patience_counter + 1
            /\ files' = files
            /\ stopped' = IF BreakTest(patience_counter + 1, patience) THEN "early"
                          ELSE IF epoch + 1 = LoopEpochs THEN "exhausted"
                          ELSE "running"
  /\ lpc' = IF stopped' = "running" THEN "loop" ELSE "load"
  /\ UNCHANGED <<loop, patience, best_val_acc, val_accuracies, loaded, pretrained>>
  /\ UNCHANGED mainVars
  /\ UNCHANGED outsideTrainer

\* after the loop: torch.load of the best checkpoint, final evaluation,
\* history file, return
LoadBest ==
  /\ lpc = "load"
  /\ IF files[BestFile(loop)] = Absent
       THEN /\ lpc' = "raised"          \* FileNotFoundError from torch.load
            /\ UNCHANGED <<loaded, files>>
       ELSE /\ lpc' = "done"
            /\ loaded' = files[BestFile(loop)]
            /\ files' = [files EXCEPT ![HistoryFile(loop)] = Written(epoch)]
  /\ UNCHANGED <<loop, patience, epoch, patience_counter, best_val_acc,
                 val_accuracies, best_val_loss, val_losses, stopped, pretrained>>
  /\ UNCHANGED mainVars
  /\ UNCHANGED outsideTrainer

\* ---------------------------------------------------------- SpecTrain
\* one call of one train_* method, on a models directory that may hold
\* the checkpoint of an earlier run
InitTrain ==
  /\ ServiceUnused
  /\ ScriptsUnused
  /\ WrapperUnused
  /\ IntegrationUnused
  /\ mode = "none"
  /\ mpc = "none"
  /\ exit_code = 0 - 1
  /\ log = <<>>
  /\ \E k \in LoopKinds, n \in 0 .. MaxEpochs, p \in 0 .. MaxPatience :
       /\ cfg_epochs = [x \in LoopKinds |-> n]
       /\ loop = k
       /\ patience = p
       /\ stopped = IF (IF k = "multimodal" THEN NumEpochsMultimodal ELSE n) = 0
                    THEN "exhausted" ELSE "running"
       /\ lpc = IF stopped = "running" THEN "loop" ELSE "load"
  /\ epoch = 0
  /\ patience_counter = 0
  /\ best_val_acc = 0
  /\ val_accuracies = <<>>
  /\ best_val_loss = Inf
  /\ val_losses = <<>>
  /\ loaded = NoState
  /\ pretrained = [text |-> NoState, audio |-> NoState]
  /\ \E c \in {Absent, Stale} :
       files = [f \in FileNames |-> IF f = BestFile(loop) THEN c ELSE Absent]

NextTrain ==
  \/ \E v \in Accs : ClassifierEpoch(v)
  \/ \E v \in Losses \cup {NaN} : TTSEpoch(v)
  \/ LoadBest

SpecTrain == InitTrain /\ [][NextTrain]_vars

FairTrain == SpecTrain /\ WF_vars(NextTrain)

\* ============================================== emotion_trainer.main
Modes == {"text_emotion", "audio_emotion", "multimodal", "all"}

\* the --mode value that selects a stage on its own
ModeOf(s) ==
  CASE s = "text" -> "text_emotion"
    [] s = "audio" -> "audio_emotion"
    [] s = "multimodal" -> "multimodal"

\* variant with the audio and multimodal blocks swapped
NextStage_swapped(s) ==
  CASE s = "text" -> "multimodal"
    [] s = "multimodal" -> "audio"
    [] s = "audio" -> "end"

\* the three `if args.mode == ... or args.mode == "all"` blocks, in order
NextStage(s) ==
  CASE s = "text" -> "audio"
    [] s = "audio" -> "multimodal"
    [] s = "multimodal" -> "end"

Selected(s) == mode = ModeOf(s) \/ mode = "all"

\* the if of a stage is false: fall through to the next if
SkipStage ==
  /\ mpc \in Classifiers
  /\ lpc = "idle"
  /\ ~Selected(mpc)
  /\ mpc' = NextStage(mpc)
  /\ UNCHANGED <<mode, exit_code, log, cfg_epochs, files>>
  /\ UNCHANGED trainVars
  /\ UNCHANGED outsideTrainer

\* main calls trainer.train_<stage>_model(): everything up to the for loop.
\* train_multimodal_model first loads the two single-modality checkpoints.
StartStage ==
  /\ mpc \in Classifiers
  /\ lpc = "idle"
  /\ Selected(mpc)
  /\ log' = Append(log, <<"train", mpc>>)
  /\ IF mpc = "multimodal"
       /\ (files[BestFile("text")] = Absent \/ files[BestFile("audio")] = Absent)
       THEN /\ lpc' = "raised"
            /\ loop' = mpc
            /\ pretrained' =
                 [text |-> IF files[BestFile("text")] = Absent THEN NoState
                           ELSE files[BestFile("text")],
                  audio |-> NoState]
            /\ UNCHANGED <<patience, epoch, patience_counter, best_val_acc,
                           val_accuracies, best_val_loss, val_losses, stopped,
                           loaded>>
       ELSE /\ StartLoop(mpc,
                         IF mpc = "multimodal" THEN NumEpochsMultimodal
                         ELSE cfg_epochs[mpc],
                         patience)
            /\ pretrained' =
                 IF mpc = "multimodal"
                 THEN [text |-> files[BestFile("text")],
                       audio |-> files[BestFile("audio")]]
                 ELSE pretrained
  /\ UNCHANGED <<mode, mpc, exit_code, cfg_epochs, files>>
  /\ UNCHANGED outsideTrainer

\* trainer.save_model_artifacts(model, "<stage>_emotion_model")
SaveArtifacts ==
  /\ mpc \in Classifiers
  /\ lpc = "done"
  /\ files' = [files EXCEPT ![ArtifactFile(mpc)] = loaded]
  /\ log' = Append(log, <<"saved", mpc>>)
  /\ mpc' = NextStage(mpc)
  /\ lpc' = "idle"
  /\ UNCHANGED <<mode, exit_code, cfg_epochs>>
  /\ UNCHANGED <<loop, patience, epoch, patience_counter, best_val_acc,
                 val_accuracies, best_val_loss, val_losses, stopped, loaded,
                 pretrained>>
  /\ UNCHANGED outsideTrainer

\* logger.info("Training completed successfully!") and return
MainFinish ==
  /\ mpc = "end"
  /\ log' = Append(log, <<"completed", "all">>)
  /\ mpc' = "finished"
  /\ exit_code' = 0
  /\ UNCHANGED <<mode, cfg_epochs, files>>
  /\ UNCHANGED trainVars
  /\ UNCHANGED outsideTrainer

\* variant that logs the error and returns, without sys.exit(1)
MainExcept_return ==
  /\ mpc \in Classifiers
  /\ lpc = "raised"
  /\ log' = Append(log, <<"error", mpc>>)
  /\ mpc' = "exited"
  /\ exit_code' = 0
  /\ UNCHANGED <<mode, cfg_epochs, files>>
  /\ UNCHANGED trainVars
  /\ UNCHANGED outsideTrainer

\* except Exception: logger.error(...); sys.exit(1)
MainExcept ==
  /\ mpc \in Classifiers
  /\ lpc = "raised"
  /\ log' = Append(log, <<"error", mpc>>)
  /\ mpc' = "exited"
  /\ exit_code' = 1
  /\ UNCHANGED <<mode, cfg_epochs, files>>
  /\ UNCHANGED trainVars
  /\ UNCHANGED outsideTrainer

InitMain ==
  /\ ServiceUnused
  /\ ScriptsUnused
  /\ WrapperUnused
  /\ IntegrationUnused
  /\ mode \in Modes
  /\ mpc = "text"
  /\ exit_code = 0 - 1
  /\ log = <<>>
  /\ \E nt \in 0 .. MaxEpochs, na \in 0 .. MaxEpochs :
       cfg_epochs = [x \in LoopKinds |->
                       IF x = "text" THEN nt ELSE IF x = "audio" THEN na ELSE 0]
  /\ loop = "none"
  /\ lpc = "idle"
  /\ patience \in 0 .. MaxPatience
  /\ epoch = 0
  /\ patience_counter = 0
  /\ best_val_acc = 0
  /\ val_accuracies = <<>>
  /\ best_val_loss = Inf
  /\ val_losses = <<>>
  /\ stopped = "running"
  /\ loaded = NoState
  /\ pretrained = [text |-> NoState, audio |-> NoState]
  /\ \E old \in SUBSET {BestFile(k) : k \in Classifiers} :
       files = [f \in FileNames |-> IF f \in old THEN Stale ELSE Absent]

NextMain ==
  \/ SkipStage
  \/ StartStage
  \/ \E v \in Accs : ClassifierEpoch(v)
  \/ LoadBest
  \/ SaveArtifacts
  \/ MainFinish
  \/ MainExcept

SpecMain == InitMain /\ [][NextMain]_vars

\* ======================================= ProductionModelWrapper methods
\* hash(str(input_data)) at a reduced width: a signed HashBits-bit value
\* that is never -1 (CPython reserves it); distinct inputs may collide and
\* the value 0 is possible
CacheKey(x) ==
  LET u == (x * x) % (2 ^ HashBits)
      sgn == IF u >= 2 ^ (HashBits - 1) THEN u - 2 ^ HashBits ELSE u
  IN IF sgn = 0 - 1 THEN 0 - 2 ELSE sgn

\* truth value of an int in `if use_cache and cache_key:`
Truthy(k) == k # 0

\* variant of the except branches that forgets the fallback
FallbackModel_none == None

\* `self.optimized_model = model` in the except branches
FallbackModel == "original"

\* optimize_model(optimization_level), with _export_to_onnx
OptimizeModel(level) ==
  /\ wpc = "new"
  /\ optimization_level' = level
  /\ LET scriptOK == "script" \notin faults
         quantTried == scriptOK /\ OPTIMIZATION_AVAILABLE /\ level # "light"
         quantOK == quantTried /\ "quantize" \notin faults
         exportCalled == level = "aggressive" /\ quantOK
         exportTried == exportCalled /\ model_type \in OnnxTypes
         exportOK == exportTried /\ "onnx" \notin faults
         failed == ~scriptOK \/ (quantTried /\ ~quantOK)
     IN /\ attempts' = <<"script">>
                       \o (IF quantTried THEN <<"quantize">> ELSE <<>>)
                       \o (IF exportTried THEN <<"onnx">> ELSE <<>>)
        /\ IF level = "light"
             THEN /\ wpc' = IF scriptOK THEN "ready" ELSE "raised"
                  /\ optimized_model' = IF scriptOK THEN "script" ELSE optimized_model
                  /\ UNCHANGED <<quantized_model, onnx_session, warnings>>
             ELSE /\ wpc' = "ready"
                  /\ optimized_model' = IF failed THEN FallbackModel ELSE "script"
                  /\ quantized_model' = IF quantOK THEN "quantized" ELSE None
                  /\ onnx_session' = IF exportOK THEN "session" ELSE None
                  /\ warnings' =
                       warnings
                       \o (IF exportTried /\ ~exportOK
                           THEN <<"ONNX export failed">> ELSE <<>>)
                       \o (IF failed
                           THEN << <<"Could not apply optimization", level>> >>
                           ELSE <<>>)
  /\ UNCHANGED <<model_type, OPTIMIZATION_AVAILABLE, faults, inference_times,
                 prediction_cache, calls>>
  /\ UNCHANGED outsideWrapper

\* variant of the or-chain that prefers the TorchScript model
ModelToUse_script_first ==
  IF optimized_model # None THEN optimized_model
  ELSE IF onnx_session # None THEN onnx_session
  ELSE IF quantized_model # None THEN quantized_model
  ELSE "original"

\* `onnx_session or quantized_model or optimized_model or original_model`
ModelToUse ==
  IF onnx_session # None THEN onnx_session
  ELSE IF quantized_model # None THEN quantized_model
  ELSE IF optimized_model # None THEN optimized_model
  ELSE "original"

\* what inference on model m returns for input x (eval mode: deterministic)
Infer(m, x) == [model |-> m, input |-> x]

\* predict(input_data, use_cache)
Predict(x, use_cache) ==
  /\ wpc \in {"new", "ready", "raised"}
  /\ Len(calls) < MaxCalls
  /\ LET hit == use_cache /\ CacheKey(x) \in DOMAIN prediction_cache
         \* no branch of _predict_torch binds `outputs` for emotion_tts
         crashes == model_type \notin OnnxTypes
         result == Infer(ModelToUse, x)
     IN IF hit
          THEN /\ calls' = Append(calls, [input |-> x, use_cache |-> use_cache,
                                          outcome |-> "hit",
                                          result |-> prediction_cache[CacheKey(x)]])
               /\ UNCHANGED <<inference_times, prediction_cache>>
          ELSE IF crashes
          THEN /\ calls' = Append(calls, [input |-> x, use_cache |-> use_cache,
                                          outcome |-> "raised",
                                          result |-> NoResult])
               /\ UNCHANGED <<inference_times, prediction_cache>>
          ELSE /\ calls' = Append(calls, [input |-> x, use_cache |-> use_cache,
                                          outcome |-> "ran",
                                          result |-> result])
               /\ inference_times' = Append(inference_times, "t")
               /\ prediction_cache' =
                    IF use_cache /\ Truthy(CacheKey(x))
                    THEN (CacheKey(x) :> result) @@ prediction_cache
                    ELSE prediction_cache
  /\ UNCHANGED <<model_type, OPTIMIZATION_AVAILABLE, faults, wpc,
                 optimization_level, optimized_model, quantized_model,
                 onnx_session, warnings, attempts>>
  /\ UNCHANGED outsideWrapper

\* get_performance_stats(): the dict it returns, without the timing entries
GetPerformanceStats ==
  IF inference_times = <<>> THEN <<>>
  ELSE [total_predictions |-> Len(inference_times),
        cache_hits |-> Cardinality(DOMAIN prediction_cache)]

\* no trainer script is running
TrainerIdle ==
  /\ mode = "none"
  /\ mpc = "none"
  /\ exit_code = 0 - 1
  /\ log = <<>>
  /\ cfg_epochs = [x \in LoopKinds |-> 0]
  /\ loop = "none"
  /\ lpc = "idle"
  /\ patience = 0
  /\ epoch = 0
  /\ patience_counter = 0
  /\ best_val_acc = 0
  /\ val_accuracies = <<>>
  /\ best_val_loss = Inf
  /\ val_losses = <<>>
  /\ stopped = "running"
  /\ loaded = NoState
  /\ pretrained = [text |-> NoState, audio |-> NoState]

TrainerUnused ==
  /\ TrainerIdle
  /\ files = [f \in FileNames |-> Absent]

\* ProductionModelWrapper.__init__
InitWrapper ==
  /\ ServiceUnused
  /\ ScriptsUnused
  /\ TrainerUnused
  /\ IntegrationUnused
  /\ model_type \in ModelTypes
  /\ OPTIMIZATION_AVAILABLE \in BOOLEAN
  /\ faults \in SUBSET LibraryCalls
  /\ wpc = "new"
  /\ optimization_level = None
  /\ optimized_model = None
  /\ quantized_model = None
  /\ onnx_session = None
  /\ inference_times = <<>>
  /\ prediction_cache = <<>>
  /\ warnings = <<>>
  /\ attempts = <<>>
  /\ calls = <<>>

NextWrapper ==
  \/ \E level \in Levels : OptimizeModel(level)
  \/ \E x \in Inputs, use_cache \in BOOLEAN : Predict(x, use_cache)

SpecWrapper == InitWrapper /\ [][NextWrapper]_vars

\* ================================== ModelIntegrator.deploy_to_production
Registered == {m \in ModelTypes : production_models[m] # NoWrapper}

\* variant that copies the configuration under its own name
ConfigTarget_same == ProdFile("models_config", ".json")

\* destination of shutil.copy2(deployment_dir / "models_config.json", ...)
ConfigTarget == ProdFile("config", ".json")

\* failing: models whose save raised (caught and logged per model);
\* partial: those of them that had written the .pth before raising
DeployToProduction(failing, partial) ==
  /\ dpc = "none"
  /\ failing \subseteq Registered
  /\ partial \subseteq failing
  /\ LET written ==
           {ProdDir}
           \cup {ProdFile(m, "_optimized.pth") : m \in (Registered \ failing) \cup partial}
           \cup {ProdFile(m, "_stats.json") : m \in Registered \ failing}
     IN IF DeploymentConfig \in paths
          THEN /\ paths' = paths \cup written \cup {ConfigTarget}
               /\ dpc' = "returned"
          ELSE /\ paths' = paths \cup written    \* copy2 raises FileNotFoundError
               /\ dpc' = "raised"
  /\ UNCHANGED production_models
  /\ UNCHANGED testVars
  /\ UNCHANGED outsideIntegration

\* ======================================================= IntegrationTester
TestNames == <<"Model files deployment", "Service integration", "API endpoints">>

TestModelFilesDeployed ==
  IF ProdDir \notin paths THEN FALSE
  ELSE IF ProdFile("models_config", ".json") \notin paths THEN FALSE
  ELSE TRUE

TestServiceIntegration ==
  IF ServiceFile \notin paths THEN FALSE ELSE TRUE

CheckServerStatus == IF mock_server THEN TRUE ELSE server_up

\* variant of the except branch that counts a raising test as passed
ExceptResult_pass == TRUE

\* results.append(False) in the except branch of run_all_tests
ExceptResult == FALSE

\* first iteration of run_all_tests; raises: Path.exists() raised
RunModelFilesTest(raises) ==
  /\ tpc = "t1"
  /\ ran' = Append(ran, TestNames[1])
  /\ results' = Append(results, IF raises THEN ExceptResult ELSE TestModelFilesDeployed)
  /\ outcomes' = Append(outcomes, IF raises THEN "raised"
                                  ELSE IF TestModelFilesDeployed THEN "True" ELSE "False")
  /\ tpc' = "t2"
  /\ UNCHANGED <<mock_server, server_up, test_results, sample, rc, paths>>
  /\ UNCHANGED deployVars
  /\ UNCHANGED outsideIntegration

\* second iteration
RunServiceTest(raises) ==
  /\ tpc = "t2"
  /\ ran' = Append(ran, TestNames[2])
  /\ results' = Append(results, IF raises THEN ExceptResult ELSE TestServiceIntegration)
  /\ outcomes' = Append(outcomes, IF raises THEN "raised"
                                  ELSE IF TestServiceIntegration THEN "True" ELSE "False")
  /\ tpc' = "t3"
  /\ UNCHANGED <<mock_server, server_up, test_results, sample, rc, paths>>
  /\ UNCHANGED deployVars
  /\ UNCHANGED outsideIntegration

\* third iteration, test_model_endpoints up to its first request: in mock
\* mode or with no server it writes the mock results and returns True
StartEndpointsTest ==
  /\ tpc = "t3"
  /\ ran' = Append(ran, TestNames[3])
  /\ IF mock_server \/ ~CheckServerStatus
       THEN /\ paths' = paths \cup {ResultsDir, ResultsFile}
            /\ results' = Append(results, TRUE)
            /\ outcomes' = Append(outcomes, "True")
            /\ tpc' = "verdict"
            /\ UNCHANGED <<test_results, sample>>
       ELSE /\ paths' = paths \cup {ResultsDir}
            /\ test_results' = NoResults
            /\ sample' = <<1, 1>>
            /\ tpc' = "requests"
            /\ UNCHANGED <<results, outcomes>>
  /\ UNCHANGED <<mock_server, server_up, rc>>
  /\ UNCHANGED deployVars
  /\ UNCHANGED outsideIntegration

\* what one requests.post can lead to: an exception, a non-200 status, a
\* body whose handling raises, or a 200 with the expected / another emotion
ResponseKinds == {"exception", "non200", "malformed", "correct", "wrong"}

\* one iteration of one of the three request loops
Request(response) ==
  /\ tpc = "requests"
  /\ sample[1] <= Len(EndpointKinds)
  /\ LET k == EndpointKinds[sample[1]]
         old == test_results[k]
     IN test_results' =
          IF response \in {"correct", "wrong"}
          THEN [test_results EXCEPT
                  ![k] = [n |-> old.n + 1,
                          correct |-> old.correct + (IF response = "correct" THEN 1 ELSE 0)]]
          ELSE test_results
  /\ sample' = IF sample[2] < NumSamples THEN <<sample[1], sample[2] + 1>>
               ELSE <<sample[1] + 1, 1>>
  /\ UNCHANGED <<mock_server, server_up, tpc, ran, results, outcomes, rc, paths>>
  /\ UNCHANGED deployVars
  /\ UNCHANGED outsideIntegration

\* the accuracies dict: endpoint kinds that collected at least one result
Accuracies == {k \in Range(EndpointKinds) : test_results[k].n > 0}

\* variant that fails the test when nothing was collected
EndpointsVerdict_strict(acc) == acc # {}

\* `if not accuracies: return True` and the final `return True`
EndpointsVerdict(acc) == IF acc = {} THEN TRUE ELSE TRUE

\* after the request loops: save the results, compute accuracies, return
FinishEndpointsTest ==
  /\ tpc = "requests"
  /\ sample[1] > Len(EndpointKinds)
  /\ paths' = paths \cup {ResultsFile}
  /\ results' = Append(results, EndpointsVerdict(Accuracies))
  /\ outcomes' = Append(outcomes, IF EndpointsVerdict(Accuracies) THEN "True" ELSE "False")
  /\ tpc' = "verdict"
  /\ UNCHANGED <<mock_server, server_up, ran, test_results, sample, rc>>
  /\ UNCHANGED deployVars
  /\ UNCHANGED outsideIntegration

\* variant of the overall result that passes when any test passed
Overall_any(r) == IF \E i \in 1 .. Len(r) : r[i] THEN 0 ELSE 1

\* `if all(results): return 0 else: return 1`
Overall(r) == IF \A i \in 1 .. Len(r) : r[i] THEN 0 ELSE 1

Verdict ==
  /\ tpc = "verdict"
  /\ rc' = Overall(results)
  /\ tpc' = "done"
  /\ UNCHANGED <<mock_server, server_up, ran, results, outcomes, test_results, sample,
                 paths>>
  /\ UNCHANGED deployVars
  /\ UNCHANGED outsideIntegration

\* ---------------------------------------------------------- SpecDeploy
\* main --deploy on some set of registered wrappers, then the file test
InitDeploy ==
  /\ ServiceUnused
  /\ ScriptsUnused
  /\ TrainerUnused
  /\ WrapperUnused
  /\ production_models \in [ModelTypes -> WrapperStates \cup {NoWrapper}]
  /\ (production_models["multimodal"] # NoWrapper =>
        /\ production_models["text_emotion"] # NoWrapper
        /\ production_models["audio_emotion"] # NoWrapper)
  /\ paths \in SUBSET {ProdDir, ProdFile("models_config", ".json"), DeploymentConfig}
  /\ (ProdFile("models_config", ".json") \in paths => ProdDir \in paths)
  /\ dpc = "none"
  /\ mock_server = FALSE
  /\ server_up = FALSE
  /\ tpc = "t1"
  /\ ran = <<>>
  /\ results = <<>>
  /\ outcomes = <<>>
  /\ test_results = NoResults
  /\ sample = <<0, 0>>
  /\ rc = 0 - 1

NextDeploy ==
  \/ \E failing \in SUBSET ModelTypes :
       \E partial \in SUBSET failing : DeployToProduction(failing, partial)
  \/ (dpc = "returned" /\ RunModelFilesTest(FALSE))

SpecDeploy == InitDeploy /\ [][NextDeploy]_vars

\* ----------------------------------------------------------- SpecTests
\* test_integration.main: IntegrationTester(...).run_all_tests()
InitTests ==
  /\ ServiceUnused
  /\ ScriptsUnused
  /\ TrainerUnused
  /\ WrapperUnused
  /\ production_models = [m \in ModelTypes |-> NoWrapper]
  /\ dpc = "none"
  /\ paths \in SUBSET {ProdDir, ProdFile("models_config", ".json"), ServiceFile}
  /\ (ProdFile("models_config", ".json") \in paths => ProdDir \in paths)
  /\ mock_server \in BOOLEAN
  /\ server_up \in BOOLEAN
  /\ tpc = "t1"
  /\ ran = <<>>
  /\ results = <<>>
  /\ outcomes = <<>>
  /\ test_results = NoResults
  /\ sample = <<0, 0>>
  /\ rc = 0 - 1

NextTests ==
  \/ \E raises \in BOOLEAN : RunModelFilesTest(raises)
  \/ \E raises \in BOOLEAN : RunServiceTest(raises)
  \/ StartEndpointsTest
  \/ \E response \in ResponseKinds : Request(response)
  \/ FinishEndpointsTest
  \/ Verdict

SpecTests == InitTests /\ [][NextTests]_vars

\* ====================================== ProductionEmotionService methods
\* arguments by what the simulated inference does with them: a str with or
\* without one of the keywords, or an object without split()/lower();
\* a sized array of at most / more than 20 features, or an object without len()
TextInputs == {"plain", "happy", "sad", "angry", "not_a_string"}
AudioInputs == {"short", "long", "unsized"}

\* confidence in thousandths: softmax score of the chosen label
Confidences == {200, 500}

\* _simulate_text_inference: the exception it raises, or None
TextInferenceError(text) ==
  IF text = "not_a_string" THEN "AttributeError" ELSE None

\* _simulate_audio_inference: the exception it raises, or None
AudioInferenceError(audio) ==
  IF audio = "unsized" THEN "TypeError" ELSE None

\* _simulate_multimodal_inference runs the text inference, then the audio one
MultimodalInferenceError(text, audio) ==
  IF TextInferenceError(text) # None THEN TextInferenceError(text)
  ELSE AudioInferenceError(audio)

\* the dict built in the try block
Detected(idx, conf, model_used) ==
  [emotion |-> emotion_labels[idx], confidence |-> conf, model_used |-> model_used]

\* variant of the except block that lets the exception through
OnInferenceError_reraise(e) == [outcome |-> "raised", result |-> [error |-> e]]

\* the dict returned by the except block
OnInferenceError(e) ==
  [outcome |-> "returned",
   result |-> [emotion |-> "neutral", confidence |-> 500, error |-> e]]

\* common shape of the three methods: err is what the inference raised,
\* idx the label np.argmax picked, conf its score
Detect(method, args, err, idx, conf, model_used) ==
  /\ svc_calls < MaxCalls
  /\ svc_calls' = svc_calls + 1
  /\ IF err # None
       THEN /\ svc_errors' = Append(svc_errors, <<method, err>>)
            /\ svc_last' = [method |-> method, args |-> args, exception |-> err]
                           @@ OnInferenceError(err)
       ELSE /\ svc_errors' = svc_errors
            /\ svc_last' = [method |-> method, args |-> args, exception |-> None,
                            outcome |-> "returned",
                            result |-> Detected(idx, conf, model_used)]
  /\ UNCHANGED outsideService

DetectEmotionFromText(text, idx, conf) ==
  Detect("detect_emotion_from_text", <<text>>, TextInferenceError(text),
         idx, conf, "text_emotion_optimized")

DetectEmotionFromAudio(audio, idx, conf) ==
  Detect("detect_emotion_from_audio", <<audio>>, AudioInferenceError(audio),
         idx, conf, "audio_emotion_optimized")

DetectEmotionMultimodal(text, audio, idx, conf) ==
  Detect("detect_emotion_multimodal", <<text, audio>>,
         MultimodalInferenceError(text, audio), idx, conf, "multimodal_optimized")

InitService ==
  /\ TrainerUnused
  /\ WrapperUnused
  /\ IntegrationUnused
  /\ ScriptsUnused
  /\ svc_calls = 0
  /\ svc_last = NoCall
  /\ svc_errors = <<>>

NextService ==
  \/ \E text \in TextInputs, idx \in 1 .. Len(emotion_labels), conf \in Confidences :
       DetectEmotionFromText(text, idx, conf)
  \/ \E audio \in AudioInputs, idx \in 1 .. Len(emotion_labels), conf \in Confidences :
       DetectEmotionFromAudio(audio, idx, conf)
  \/ \E text \in TextInputs, audio \in AudioInputs,
        idx \in 1 .. Len(emotion_labels), conf \in Confidences :
       DetectEmotionMultimodal(text, audio, idx, conf)

SpecService == InitService /\ [][NextService]_vars

\* ========================================== emotion_service_wrapper.main
\* lines 16-27: what importing and constructing the service raised, or None
ImportOutcomes == {None, "ImportError", "Exception"}

\* lines 20, 23, 26: the flag set by the module-level try statement
ServiceAvailable(raised) == raised = None

\* sys.argv[1] values: the four modes of the if/elif chain and two others
BridgeModes == {"text", "audio", "multimodal", "status", "train", ""}

\* sys.argv[2] values, named by the document they hold
Missing == "missing"
DataArgs ==
  {"not json", "[1]", "{}", "{text: happy}", "{text: 5}",
   "{audio_features: 26 numbers}", "{text: sad, audio_features: 7}"}

\* json.loads: the parsed value by type, or the exception it raises; the
\* entries of a dict are named by what the simulated inference does with them
JsonLoads(s) ==
  CASE s = "[1]" -> [type |-> "list", text |-> Missing, audio_features |-> Missing]
    [] s = "{}" -> [type |-> "dict", text |-> Missing, audio_features |-> Missing]
    [] s = "{text: happy}" ->
         [type |-> "dict", text |-> "happy", audio_features |-> Missing]
    [] s = "{text: 5}" ->
         [type |-> "dict", text |-> "not_a_string", audio_features |-> Missing]
    [] s = "{audio_features: 26 numbers}" ->
         [type |-> "dict", text |-> Missing, audio_features |-> "long"]
    [] s = "{text: sad, audio_features: 7}" ->
         [type |-> "dict", text |-> "sad", audio_features |-> "unsized"]
    [] OTHER -> [type |-> "JSONDecodeError", text |-> Missing, audio_features |-> Missing]

\* data.get("text", ""): the empty string is a str without keyword
GetText(data) == IF data.text = Missing THEN "plain" ELSE data.text

\* data.get("audio_features", {}): the empty dict has length 0
GetAudioFeatures(data) ==
  IF data.audio_features = Missing THEN "short" ELSE data.audio_features

\* lines 39-50, confidences in thousandths
FallbackResult(m) ==
  [emotion |-> "neutral", confidence |-> 500,
   all_scores |-> [neutral |-> 500, happiness |-> 200, sadness |-> 100,
                   anger |-> 100, love |-> 100],
   model_used |-> m \o "_fallback"]

\* lines 66-73
StatusResult ==
  [models |-> [text_emotion |-> "ready", audio_emotion |-> "ready",
               multimodal_emotion |-> "ready"],
   last_updated |-> "2025-05-30T00:00:00Z"]

\* variant of the else branch that does not name the mode
UnknownModeResult_bare(m) == [error |-> "Unknown mode"]

\* line 75
UnknownModeResult(m) == [error |-> "Unknown mode: " \o m]

\* lines 80-85
ErrorResult(e, m) ==
  [error |-> e, emotion |-> "neutral", confidence |-> 500,
   model_used |-> m \o "_error"]

\* what a detect_emotion_* method of the service returns
ServiceResult(err, idx, conf, model_used) ==
  IF err # None THEN OnInferenceError(err).result
  ELSE Detected(idx, conf, model_used)

\* lines 55-75: the service method the mode selects, or None
MethodOf(m) ==
  CASE m = "text" -> "detect_emotion_from_text"
    [] m = "audio" -> "detect_emotion_from_audio"
    [] m = "multimodal" -> "detect_emotion_multimodal"
    [] OTHER -> None

\* lines 55-75: the value bound to result when the try block does not raise
Dispatch(m, data, idx, conf) ==
  CASE m = "text" ->
         ServiceResult(TextInferenceError(GetText(data)), idx, conf,
                       "text_emotion_optimized")
    [] m = "audio" ->
         ServiceResult(AudioInferenceError(GetAudioFeatures(data)), idx, conf,
                       "audio_emotion_optimized")
    [] m = "multimodal" ->
         ServiceResult(MultimodalInferenceError(GetText(data), GetAudioFeatures(data)),
                       idx, conf, "multimodal_optimized")
    [] m = "status" -> StatusResult
    [] OTHER -> UnknownModeResult(m)

\* lines 55-64: data.get raises when the parsed document is not an object
GetRaises(m, data) == MethodOf(m) # None /\ data.type # "dict"

\* lines 29-86, one invocation; idx and conf are the label and score the
\* simulated inference of the service comes up with
BridgeMain(idx, conf) ==
  /\ bpc = "start"
  /\ IF Len(argv) # 3
       THEN /\ stdout' = Append(stdout, [error |-> "Invalid arguments"])
            /\ bpc' = "exit1"
            /\ bridge_calls' = bridge_calls
       ELSE LET m == argv[2]
                data == JsonLoads(argv[3])
            IN IF data.type = "JSONDecodeError"
                 THEN /\ bpc' = "raised"
                      /\ UNCHANGED <<stdout, bridge_calls>>
               ELSE IF ~SERVICE_AVAILABLE
                 THEN /\ stdout' = Append(stdout, FallbackResult(m))
                      /\ bpc' = "returned"
                      /\ bridge_calls' = bridge_calls
               ELSE IF GetRaises(m, data)
                 THEN /\ stdout' = Append(stdout, ErrorResult("AttributeError", m))
                      /\ bpc' = "returned"
                      /\ bridge_calls' = bridge_calls
               ELSE /\ stdout' = Append(stdout, Dispatch(m, data, idx, conf))
                    /\ bpc' = "returned"
                    /\ bridge_calls' =
                         IF MethodOf(m) = None THEN bridge_calls
                         ELSE Append(bridge_calls, MethodOf(m))
  /\ UNCHANGED <<SERVICE_AVAILABLE, argv>>
  /\ UNCHANGED outsideBridge

\* the command lines: the script name followed by 0 to 3 arguments
CommandLines ==
  {<<"emotion_service_wrapper.py">>}
  \cup {<<"emotion_service_wrapper.py", m>> : m \in BridgeModes}
  \cup {<<"emotion_service_wrapper.py", m, d>> : m \in BridgeModes, d \in DataArgs}
  \cup {<<"emotion_service_wrapper.py", m, d, "extra">> :
          m \in BridgeModes, d \in DataArgs}

InitBridge ==
  /\ TrainerUnused
  /\ WrapperUnused
  /\ IntegrationUnused
  /\ ServiceUnused
  /\ CleanupUnused
  /\ DataUnused
  /\ LoadUnused
  /\ \E raised \in ImportOutcomes : SERVICE_AVAILABLE = ServiceAvailable(raised)
  /\ argv \in CommandLines
  /\ stdout = <<>>
  /\ bpc = "start"
  /\ bridge_calls = <<>>

NextBridge ==
  \E idx \in 1 .. Len(emotion_labels), conf \in Confidences : BridgeMain(idx, conf)

SpecBridge == InitBridge /\ [][NextBridge]_vars

\* ==================================== cleanup.cleanup_training_files
\* line 41: timedelta(days=30)
LogRetentionDays == 30

\* lines 25-36: the fixed part of to_remove
FixedItems ==
  <<Entry("data", "", "raw", ""),
    Entry("models", "", "text_emotion_model", ".pth"),
    Entry("models", "", "audio_emotion_model", ".pth"),
    Entry("models", "", "multimodal_emotion_model", ".pth"),
    Entry("", "", "cache", ""),
    Entry("", "", "__pycache__", "")>>

\* line 39
LogDir == Entry("", "", "logs", "")

\* variant of the glob that lists every entry of logs
LogGlob_all(e) == e.dir = FullName(LogDir)

\* line 42: log_dir.glob("*.log")
LogGlob(e) == e.dir = FullName(LogDir) /\ e.suffix = ".log"

\* lines 43-44: file_time < thirty_days_ago
IsOld(e) == age[e] > LogRetentionDays

\* lines 40-45: the log files appended to to_remove
OldLogs ==
  IF tree[LogDir] = "absent" THEN {}
  ELSE {e \in Entries : LogGlob(e) /\ tree[e] # "absent" /\ IsOld(e)}

\* the orders in which glob can yield the members of a set
Orders(S) ==
  {q \in [1 .. Cardinality(S) -> S] : \A e \in S : \E i \in DOMAIN q : q[i] = e}

\* the entries below a directory
Below(d) == {e \in Entries : e.dir = FullName(d)}

\* lines 57-60: shutil.rmtree of a directory, unlink of anything else
Remove(t, it) ==
  [e \in Entries |->
     IF e = it \/ (t[it] = "dir" /\ e \in Below(it)) THEN "absent" ELSE t[e]]

\* a shutil.rmtree that raises after it removed the content of the directory
RemoveContent(t, it) ==
  [e \in Entries |-> IF t[it] = "dir" /\ e \in Below(it) THEN "absent" ELSE t[e]]

\* variant of the loop body that ignores dry_run
Deletes_always(dry) == TRUE

\* line 52: only a run without dry_run touches the file system
Deletes(dry) == ~dry

\* lines 22-48
CleanupStart ==
  /\ cpc = "start"
  /\ \E logs \in Orders(OldLogs) : to_remove' = FixedItems \o logs
  /\ item' = 1
  /\ removed' = 0
  /\ skipped' = 0
  /\ cpc' = "loop"
  /\ UNCHANGED <<dry_run, tree, tree0, age, clean_log>>
  /\ UNCHANGED outsideCleanup

\* lines 50-67, one iteration; fail: rmtree or unlink raises, partial: the
\* rmtree that raises has removed the content of the directory before
CleanupItem(fail, partial) ==
  /\ cpc = "loop"
  /\ item <= Len(to_remove)
  /\ LET it == to_remove[item]
     IN IF tree[it] = "absent"
          THEN /\ skipped' = skipped + 1
               /\ UNCHANGED <<tree, removed, clean_log>>
        ELSE IF ~Deletes(dry_run)
          THEN /\ clean_log' = Append(clean_log, <<"Would remove", it>>)
               /\ removed' = removed + 1
               /\ UNCHANGED <<tree, skipped>>
        ELSE IF ~fail
          THEN /\ tree' = Remove(tree, it)
               /\ clean_log' = Append(clean_log, <<"Removed", it>>)
               /\ removed' = removed + 1
               /\ skipped' = skipped
        ELSE /\ tree' = IF partial THEN RemoveContent(tree, it) ELSE tree
             /\ clean_log' = Append(clean_log, <<"Failed to remove", it>>)
             /\ skipped' = skipped + 1
             /\ removed' = removed
  /\ item' = item + 1
  /\ UNCHANGED <<dry_run, tree0, age, cpc, to_remove>>
  /\ UNCHANGED outsideCleanup

\* lines 69-76
CleanupFinish ==
  /\ cpc = "loop"
  /\ item > Len(to_remove)
  /\ cpc' = "done"
  /\ UNCHANGED <<dry_run, tree, tree0, age, to_remove, item, removed, skipped,
                 clean_log>>
  /\ UNCHANGED outsideCleanup

\* the files cleanup is meant to leave, present or absent by group
ModelsKept ==
  {Entry("models", "best_", "text_emotion_model", ".pth"),
   Entry("models", "", "text_emotion_model_config", ".json")}
ResultsKept ==
  {Entry("evaluation_results", "", "evaluation_report", ".json"),
   Entry("deployment", "", "models_config", ".json")}
LogFiles == Below(LogDir)

\* a directory tree: raw is "absent" or "full"; present is the set
\* of files that exist, cache is the kind of the cache entry
TreeOf(raw, present, cache, pycache, logs) ==
  [e \in Entries |->
     CASE e = FixedItems[1] -> IF raw = "absent" THEN "absent" ELSE "dir"
       [] e \in Below(FixedItems[1]) -> IF raw = "full" THEN "file" ELSE "absent"
       [] e = FixedItems[5] -> cache
       [] e = FixedItems[6] -> IF pycache THEN "dir" ELSE "absent"
       [] e = LogDir -> IF logs THEN "dir" ELSE "absent"
       [] e \in LogFiles -> IF logs /\ e \in present THEN "file" ELSE "absent"
       [] OTHER -> IF e \in present THEN "file" ELSE "absent"]

Ages == LogRetentionDays .. MaxAgeDays

InitCleanup ==
  /\ TrainerUnused
  /\ WrapperUnused
  /\ IntegrationUnused
  /\ ServiceUnused
  /\ BridgeUnused
  /\ DataUnused
  /\ LoadUnused
  /\ dry_run \in BOOLEAN
  /\ \E raw \in {"absent", "full"},
        nonbest \in SUBSET {{FixedItems[2]}, {FixedItems[3], FixedItems[4]}},
        kept \in {{}, ModelsKept \cup ResultsKept},
        logfiles \in SUBSET LogFiles,
        cache \in {"absent", "file", "dir"}, pycache \in BOOLEAN, logs \in BOOLEAN :
       tree = TreeOf(raw, UNION nonbest \cup kept \cup logfiles, cache, pycache, logs)
  /\ \E a \in [{e \in LogFiles : LogGlob(e)} -> Ages] :
       age = [e \in Entries |->
                IF tree[e] = "absent" \/ e \notin LogFiles THEN 0
                ELSE IF LogGlob(e) THEN a[e] ELSE MaxAgeDays]
  /\ tree0 = tree
  /\ cpc = "start"
  /\ to_remove = <<>>
  /\ item = 0
  /\ removed = 0
  /\ skipped = 0
  /\ clean_log = <<>>

NextCleanup ==
  \/ CleanupStart
  \/ \E fail \in BOOLEAN, partial \in BOOLEAN : CleanupItem(fail, partial)
  \/ CleanupFinish

SpecCleanup == InitCleanup /\ [][NextCleanup]_vars

\* ================= EmotionDataProcessor.create_balanced_dataset
\* the emotion column holds labels of self.emotion_labels; two are followed
DataEmotions == {"happiness", "sadness"}

\* a row after preprocess_text_data: texts are distinct (drop_duplicates)
Row(text, emotion) == [text |-> text, emotion |-> emotion]

\* the frames of n rows: row i has text i
Frames(n) ==
  {[i \in 1 .. n |-> Row(i, label[i])] : label \in [1 .. n -> DataEmotions]}

\* line 134: df['emotion'].unique(), in order of first appearance
RECURSIVE Unique(_)
Unique(q) ==
  IF q = <<>> THEN <<>>
  ELSE LET rest == Unique(SubSeq(q, 1, Len(q) - 1))
           last == q[Len(q)].emotion
       IN IF \E i \in DOMAIN rest : rest[i] = last THEN rest ELSE Append(rest, last)

\* line 135: df[df['emotion'] == emotion]
RECURSIVE WithEmotion(_, _)
WithEmotion(q, emotion) ==
  IF q = <<>> THEN <<>>
  ELSE LET rest == WithEmotion(SubSeq(q, 1, Len(q) - 1), emotion)
       IN IF q[Len(q)].emotion = emotion THEN Append(rest, q[Len(q)]) ELSE rest

\* the rows of a frame that are in S, in the order of the frame
RECURSIVE Restrict(_, _)
Restrict(q, S) ==
  IF q = <<>> THEN <<>>
  ELSE LET rest == Restrict(SubSeq(q, 1, Len(q) - 1), S)
       IN IF q[Len(q)] \in S THEN Append(rest, q[Len(q)]) ELSE rest

\* line 139: sample(n=...) without replacement keeps n distinct rows
Downsamples(q, n) ==
  {Restrict(q, S) : S \in {T \in SUBSET Range(q) : Cardinality(T) = n}}

\* line 145: sample(n=..., replace=True) draws n rows, repeats allowed
Augmentations(q, n) == [1 .. n -> Range(q)]

\* variant of line 142 that forgets the rows the class already has
AdditionalNeeded_max(emotion_df) == max_samples_per_class

\* line 142
AdditionalNeeded(emotion_df) == max_samples_per_class - Len(emotion_df)

\* lines 150: pd.concat(balanced_dfs, ignore_index=True)
RECURSIVE Concat(_)
Concat(qs) == IF qs = <<>> THEN <<>> ELSE Concat(SubSeq(qs, 1, Len(qs) - 1)) \o qs[Len(qs)]

\* line 151: sample(frac=1) returns the rows in some order
Shuffles(q) ==
  {[i \in 1 .. Len(q) |-> q[perm[i]]] : perm \in Permutations(1 .. Len(q))}

\* lines 131-134
BalanceStart ==
  /\ bal_pc = "start"
  /\ todo' = Unique(df)
  /\ balanced_dfs' = <<>>
  /\ bal_pc' = "loop"
  /\ UNCHANGED <<df, max_samples_per_class, balanced_df, data_splits, data_pc>>
  /\ UNCHANGED outsideData

\* lines 134-148, one iteration
BalanceClass ==
  /\ bal_pc = "loop"
  /\ todo # <<>>
  /\ LET emotion_df == WithEmotion(df, Head(todo))
     IN IF Len(emotion_df) > max_samples_per_class
          THEN \E sampled \in Downsamples(emotion_df, max_samples_per_class) :
                 balanced_dfs' = Append(balanced_dfs, sampled)
        ELSE IF AdditionalNeeded(emotion_df) > 0
          THEN \E augmented \in Augmentations(emotion_df, AdditionalNeeded(emotion_df)) :
                 balanced_dfs' = Append(balanced_dfs, emotion_df \o augmented)
        ELSE balanced_dfs' = Append(balanced_dfs, emotion_df)
  /\ todo' = Tail(todo)
  /\ UNCHANGED <<df, max_samples_per_class, balanced_df, bal_pc, data_splits, data_pc>>
  /\ UNCHANGED outsideData

\* lines 150-156; pd.concat raises ValueError for an empty list
BalanceFinish ==
  /\ bal_pc = "loop"
  /\ todo = <<>>
  /\ IF balanced_dfs = <<>>
       THEN bal_pc' = "raised" /\ balanced_df' = balanced_df
       ELSE /\ balanced_df' \in Shuffles(Concat(balanced_dfs))
            /\ bal_pc' = "returned"
  /\ UNCHANGED <<df, max_samples_per_class, todo, balanced_dfs, data_splits, data_pc>>
  /\ UNCHANGED outsideData

InitBalance ==
  /\ TrainerUnused
  /\ WrapperUnused
  /\ IntegrationUnused
  /\ ServiceUnused
  /\ BridgeUnused
  /\ CleanupUnused
  /\ LoadUnused
  /\ \E n \in 0 .. MaxRows : df \in Frames(n)
  /\ max_samples_per_class \in 0 .. MaxSamples
  /\ todo = <<>>
  /\ balanced_dfs = <<>>
  /\ balanced_df = <<>>
  /\ bal_pc = "start"
  /\ data_splits = NoSplits
  /\ data_pc = "none"

NextBalance == BalanceStart \/ BalanceClass \/ BalanceFinish

SpecBalance == InitBalance /\ [][NextBalance]_vars

\* ==================== ModelIntegrator.load_and_optimize_models, the call
\* lines 312, 317, 322, 350: the weights file of each model
WeightsFile(m) ==
  CASE m = "text_emotion" -> "best_text_emotion_model.pth"
    [] m = "audio_emotion" -> "best_audio_emotion_model.pth"
    [] m = "emotion_tts" -> "emotion_aware_tts.pth"
    [] m = "multimodal" -> "best_multimodal_emotion_model.pth"

\* lines 329, 351: model_file.exists()
Exists(f) == files[f] # Absent

\* optimize_model raises only where it has no try statement (lines 73-75)
OptimizeRaises(level, fault) == level = "light" /\ fault = "script"

\* the wrapper optimize_model leaves: with a quantized model, or with an
\* optimized model only (the TorchScript module or the model itself)
WrapperState(level, fault) ==
  IF level # "light" /\ OPTIMIZATION_AVAILABLE /\ fault \notin {"script", "quantize"}
  THEN "quantized" ELSE "optimized"

\* variant that registers the wrapper before optimize_model is called
RegisteredIf_early(built, state_loaded, optimized) == built /\ state_loaded

\* line 340 follows lines 332-338 inside the try statement
RegisteredIf(built, state_loaded, optimized) == built /\ state_loaded /\ optimized

\* the model the for loop visits after m
NextModel(m) ==
  CASE m = "text_emotion" -> "audio_emotion"
    [] m = "audio_emotion" -> "emotion_tts"
    [] OTHER -> "multimodal"

\* lines 326-346, one iteration
LoadModel ==
  /\ load_pc \in Range(ConfiguredModels)
  /\ LET m == load_pc
         fault == load_faults[m]
         built == fault # "construct"
         state_loaded == built /\ fault # "load_state_dict"
         optimized == state_loaded /\ ~OptimizeRaises(load_level, fault)
         state == WrapperState(load_level, fault)
     IN IF ~Exists(WeightsFile(m))
          THEN /\ load_log' = Append(load_log, <<"Model file not found", m>>)
               /\ UNCHANGED <<parameters, quantized_weights, production_models>>
          ELSE /\ parameters' =
                    IF state_loaded THEN [parameters EXCEPT ![m] = StateDict(WeightsFile(m), "all")]
                    ELSE parameters
               /\ quantized_weights' =
                    IF optimized /\ state = "quantized"
                    THEN [quantized_weights EXCEPT ![m] = StateDict(WeightsFile(m), "all")]
                    ELSE quantized_weights
               /\ production_models' =
                    IF RegisteredIf(built, state_loaded, optimized)
                    THEN [production_models EXCEPT ![m] = state]
                    ELSE production_models
               /\ load_log' =
                    Append(load_log,
                           IF optimized THEN <<"Loaded and optimized", m>>
                           ELSE <<"Failed to load", m>>)
  /\ load_pc' = NextModel(load_pc)
  /\ UNCHANGED <<load_level, load_faults, files, OPTIMIZATION_AVAILABLE>>
  /\ UNCHANGED outsideLoad

\* lines 348-374; copied: the submodules a load_state_dict that raises had
\* written before it raised
LoadMultimodal(copied) ==
  /\ load_pc = "multimodal"
  /\ LET m == "multimodal"
         f == WeightsFile(m)
         fault == load_faults[m]
         built == fault # "construct"
         state_loaded == built /\ fault # "load_state_dict"
         optimized == state_loaded /\ ~OptimizeRaises(load_level, fault)
         state == WrapperState(load_level, fault)
         \* lines 353-358: the multimodal model holds the two original_model
         \* objects themselves, so load_state_dict writes into their tensors
         written == IF state_loaded THEN {"text_emotion", "audio_emotion", m}
                    ELSE IF built THEN copied ELSE {}
         part(x) == CASE x = "text_emotion" -> "text_model"
                      [] x = "audio_emotion" -> "audio_model"
                      [] OTHER -> "fusion"
     IN IF /\ production_models["text_emotion"] # NoWrapper
           /\ production_models["audio_emotion"] # NoWrapper
           /\ Exists(f)
          THEN /\ parameters' =
                    [x \in ModelTypes |->
                       IF x \in written THEN StateDict(f, part(x)) ELSE parameters[x]]
               /\ quantized_weights' =
                    IF optimized /\ state = "quantized"
                    THEN [quantized_weights EXCEPT ![m] = StateDict(f, "all")]
                    ELSE quantized_weights
               /\ production_models' =
                    IF RegisteredIf(built, state_loaded, optimized)
                    THEN [production_models EXCEPT ![m] = state]
                    ELSE production_models
               /\ load_log' =
                    Append(load_log,
                           IF optimized THEN <<"Loaded and optimized", m>>
                           ELSE <<"Failed to load", m>>)
          ELSE UNCHANGED <<parameters, quantized_weights, production_models, load_log>>
  /\ load_pc' = "done"
  /\ UNCHANGED <<load_level, load_faults, files, OPTIMIZATION_AVAILABLE>>
  /\ UNCHANGED outsideLoad

\* the weights of the model predict runs for a registered wrapper: the copy
\* made by quantize_dynamic, else the tensors of original_model
UsedWeights(m) ==
  IF production_models[m] = "quantized" THEN quantized_weights[m] ELSE parameters[m]

InitLoad ==
  /\ TrainerIdle
  /\ WrapperIdle
  /\ IntegrationIdle
  /\ ServiceUnused
  /\ BridgeUnused
  /\ CleanupUnused
  /\ DataUnused
  /\ \E present \in SUBSET {WeightsFile(m) : m \in ModelTypes} :
       files = [f \in FileNames |-> IF f \in present THEN Stale ELSE Absent]
  /\ OPTIMIZATION_AVAILABLE \in BOOLEAN
  /\ production_models = [m \in ModelTypes |-> NoWrapper]
  /\ load_level \in Levels
  /\ load_faults \in [ModelTypes -> LoadSteps \cup {None}]
  /\ parameters = [m \in ModelTypes |-> Untrained]
  /\ quantized_weights = [m \in ModelTypes |-> Untrained]
  /\ load_pc = ConfiguredModels[1]
  /\ load_log = <<>>

NextLoad ==
  \/ LoadModel
  \/ \E copied \in SUBSET {"text_emotion", "audio_emotion"} : LoadMultimodal(copied)

SpecLoad == InitLoad /\ [][NextLoad]_vars


\* =============================================== data_processor pipeline
\* scikit-learn's train_test_split puts ceil(test_size * n) rows on the test
\* side and the rest on the train side.  test_size is 0.2 = 1/5 in the first
\* split (line 166) and val_size / (1 - test_size) = 0.125 = 1/8 in the second
\* (lines 171-172); both products are exact in binary floating point for the row
\* counts used here.
TestSizeInv == 5
ValSizeAdjustedInv == 8
NumTest(n, inv) == (n + inv - 1) \div inv

\* the label column (line 163) is a bijective encoding of the emotion column
ClassesOf(frame, idx) == {frame[i].emotion : i \in idx}
ClassCount(frame, idx, c) == Cardinality({i \in idx : frame[i].emotion = c})

RECURSIVE SumOver(_, _)
SumOver(f, S) ==
  IF S = {} THEN 0
  ELSE LET c == CHOOSE x \in S : TRUE IN f[c] + SumOver(f, S \ {c})

\* ValueError of train_test_split(..., stratify=...): an empty train side, a
\* class with a single member, or a side smaller than the number of classes
SplitRaises(frame, idx, n_test) ==
  LET n_train == Cardinality(idx) - n_test
      n_classes == Cardinality(ClassesOf(frame, idx))
  IN \/ n_train = 0
     \/ \E c \in ClassesOf(frame, idx) : ClassCount(frame, idx, c) < 2
     \/ n_train < n_classes
     \/ n_test < n_classes

\* rows per class on the train side: the proportional share rounded down, the
\* rows still missing going to the classes with the largest remainders, ties
\* broken at random
ApproximateMode(frame, idx, n_draws) ==
  LET classes == ClassesOf(frame, idx)
      total == Cardinality(idx)
      floored(c) == (ClassCount(frame, idx, c) * n_draws) \div total
      remainder(c) == (ClassCount(frame, idx, c) * n_draws) % total
  IN {n_i \in [classes -> 0 .. n_draws] :
        /\ SumOver(n_i, classes) = n_draws
        /\ \A c \in classes : n_i[c] \in {floored(c), floored(c) + 1}
        /\ \A c, d \in classes :
             remainder(c) > remainder(d) /\ n_i[d] = floored(d) + 1
               => n_i[c] = floored(c) + 1}

\* the pairs <<train, test>> of index labels a stratified split can return:
\* rows are drawn by position, whatever their text; the test side takes all
\* the rows the train side leaves
StratifiedSplits(frame, idx, n_test) ==
  UNION {{<<train, idx \ train>> :
            train \in {t \in SUBSET idx :
                         \A c \in DOMAIN n_i : ClassCount(frame, t, c) = n_i[c]}} :
         n_i \in ApproximateMode(frame, idx, Cardinality(idx) - n_test)}

\* the frame main hands to prepare_training_data (lines 397-401)
SplitFrame == IF bal_pc = "returned" THEN balanced_df ELSE df

\* prepare_training_data, lines 158-198, called at line 401; a ValueError of
\* either split reaches main's except clause (lines 429-431)
PrepareTrainingData ==
  /\ data_pc = "try"
  /\ bal_pc \in {"returned", "skipped"}
  /\ LET rows == 1 .. Len(SplitFrame)
         n_test == NumTest(Len(SplitFrame), TestSizeInv)
     IN IF SplitRaises(SplitFrame, rows, n_test)
          THEN data_pc' = "exit1" /\ data_splits' = data_splits
          ELSE \E first \in StratifiedSplits(SplitFrame, rows, n_test) :
                 LET train_val == first[1]
                     n_val == NumTest(Cardinality(train_val), ValSizeAdjustedInv)
                 IN IF SplitRaises(SplitFrame, train_val, n_val)
                      THEN data_pc' = "exit1" /\ data_splits' = data_splits
                      ELSE \E second \in StratifiedSplits(SplitFrame, train_val, n_val) :
                             /\ data_splits' = [train |-> second[1],
                                                val |-> second[2],
                                                test |-> first[2]]
                             /\ data_pc' = "prepared"
  /\ UNCHANGED <<df, max_samples_per_class, todo, balanced_dfs, balanced_df, bal_pc>>
  /\ UNCHANGED outsideData

\* lines 403-420: tokenising, synthetic audio features, saving and the
\* training configuration add to data_splits and leave the three frames alone
DataFinish ==
  /\ data_pc = "prepared"
  /\ data_pc' = "done"
  /\ UNCHANGED <<df, max_samples_per_class, todo, balanced_dfs, balanced_df, bal_pc,
                 data_splits>>
  /\ UNCHANGED outsideData

\* lines 429-431, after create_balanced_dataset raised
DataExcept ==
  /\ data_pc = "try"
  /\ bal_pc = "raised"
  /\ data_pc' = "exit1"
  /\ UNCHANGED <<df, max_samples_per_class, todo, balanced_dfs, balanced_df, bal_pc,
                 data_splits>>
  /\ UNCHANGED outsideData

\* main with --download, after preprocess_text_data (line 395): df holds
\* distinct texts; --balance and --max-samples are the inputs
InitData ==
  /\ TrainerUnused
  /\ WrapperUnused
  /\ IntegrationUnused
  /\ ServiceUnused
  /\ BridgeUnused
  /\ CleanupUnused
  /\ LoadUnused
  /\ \E n \in 0 .. MaxTexts : df \in Frames(n)
  /\ max_samples_per_class \in 0 .. MaxPerClass
  /\ todo = <<>>
  /\ balanced_dfs = <<>>
  /\ balanced_df = <<>>
  /\ bal_pc \in {"start", "skipped"}
  /\ data_splits = NoSplits
  /\ data_pc = "try"

NextData ==
  \/ BalanceStart
  \/ BalanceClass
  \/ BalanceFinish
  \/ PrepareTrainingData
  \/ DataFinish
  \/ DataExcept

SpecData == InitData /\ [][NextData]_vars

\* ================================================================ claims
RECURSIVE SeqMax(_)
SeqMax(s) == IF s = <<>> THEN 0
             ELSE LET m == SeqMax(Tail(s)) IN IF Head(s) > m THEN Head(s) ELSE m

FirstIndexOf(s, v) ==
  CHOOSE i \in 1 .. Len(s) : s[i] = v /\ \A j \in 1 .. (i - 1) : s[j] # v

IsPrefix(a, b) == Len(a) <= Len(b) /\ \A i \in 1 .. Len(a) : a[i] = b[i]

\* patience_counter has been counted up to the patience
Reached == patience_counter > 0 /\ patience_counter >= patience

StopCond == Reached \/ epoch = LoopEpochs

C1_State ==
  loop \in LoopKinds =>
    /\ epoch <= LoopEpochs
    /\ (lpc = "loop") <=> ~StopCond

C1_EpochStep ==
  epoch' # epoch =>
    /\ ~StopCond
    /\ epoch' = epoch + 1
    /\ LET improved ==
             IF loop = "tts"
             THEN /\ val_losses'[epoch'] # NaN
                  /\ val_losses'[epoch'] < best_val_loss
             ELSE val_accuracies'[epoch'] > best_val_acc
       IN patience_counter' = IF improved THEN 0 ELSE patience_counter + 1

\* C1: in every training loop the counter is reset by a strictly improving
\* epoch and incremented by any other; the loop is left exactly when the
\* counter has been counted up to the patience or the configured number of
\* epochs has run, no epoch runs after that, and the method terminates.
C1_EarlyStopping ==
  /\ []C1_State
  /\ [][C1_EpochStep]_vars
  /\ <>(lpc \in {"done", "raised"})

C1_Witness ==
  /\ stopped = "early"
  /\ patience >= 2
  /\ patience_counter = patience
  /\ epoch < LoopEpochs
  /\ lpc = "load"

C2_State ==
  (loop \in Classifiers /\ lpc \in {"loop", "load", "done", "raised"}) =>
    /\ Len(val_accuracies) = epoch
    /\ best_val_acc = SeqMax(val_accuracies)
    /\ IF best_val_acc > 0
         THEN files[BestFile(loop)] =
                Written(FirstIndexOf(val_accuracies, best_val_acc))
         ELSE files[BestFile(loop)].run # "this"

C2_EpochStep ==
  (loop \in Classifiers /\ epoch' = epoch + 1
     /\ val_accuracies'[epoch'] <= best_val_acc)
    => files'[BestFile(loop)] = files[BestFile(loop)]

\* C2: at the end of every epoch of a classifier loop best_val_acc is the
\* largest validation accuracy seen (0 if none exceeded 0), the checkpoint
\* written by the run is the one of the earliest epoch that reached it, and
\* an epoch that does not exceed the best leaves the checkpoint untouched.
C2_BestCheckpoint == []C2_State /\ [][C2_EpochStep]_vars

C2_Witness ==
  /\ loop \in Classifiers
  /\ epoch >= 2
  /\ best_val_acc > 0
  /\ val_accuracies[epoch] = best_val_acc
  /\ files[BestFile(loop)] = Written(1)

\* C3: when a classifier loop that ran at least one epoch reaches the load
\* of its best checkpoint, that checkpoint was written by this run.
C3_CheckpointFromThisRun ==
  (loop \in Classifiers /\ lpc = "load" /\ epoch >= 1)
    => files[BestFile(loop)].run = "this"

CanonicalLog ==
  << <<"train", "text">>, <<"saved", "text">>,
     <<"train", "audio">>, <<"saved", "audio">>,
     <<"train", "multimodal">>, <<"saved", "multimodal">>,
     <<"completed", "all">> >>

IsStageEvent(e) == e[1] # "error"

\* C4: with --mode all the stages start in the order text, audio,
\* multimodal, each stage's artifacts are on disk before the next stage
\* starts, and train_multimodal_model starts only after the text and the
\* audio stage have both returned and been saved.
C4_StageOrder ==
  mode = "all" =>
    /\ IsPrefix(SelectSeq(log, IsStageEvent), CanonicalLog)
    /\ \A s \in Classifiers :
         <<"saved", s>> \in Range(log) => files[ArtifactFile(s)] # Absent
    /\ <<"train", "multimodal">> \in Range(log) =>
         /\ <<"saved", "text">> \in Range(log)
         /\ <<"saved", "audio">> \in Range(log)
         /\ files[HistoryFile("text")] # Absent
         /\ files[HistoryFile("audio")] # Absent

C4_Witness ==
  /\ mode = "all"
  /\ mpc = "finished"
  /\ log = CanonicalLog

\* C5: a predict call with use_cache=True whose input equals that of an
\* earlier answered use_cache=True call runs no inference and returns the
\* result returned before.
C5_RepeatIsCacheHit ==
  \A i \in 1 .. Len(calls), j \in 1 .. Len(calls) :
    (i < j /\ calls[i].input = calls[j].input
       /\ calls[i].use_cache /\ calls[j].use_cache
       /\ calls[i].outcome # "raised")
      => /\ calls[j].outcome = "hit"
         /\ calls[j].result = calls[i].result

\* a medium or aggressive optimize_model call has returned
OptimizedWithFallback == wpc = "ready" /\ optimization_level \in {"medium", "aggressive"}

\* C6: optimize_model('medium' | 'aggressive') never raises; every library
\* call it made that failed left a warning; optimized_model is afterwards
\* the TorchScript model or the original model, never None, and every later
\* inference runs on some model.
C6_OptimizeNeverRaises ==
  /\ (wpc = "raised" => optimization_level = "light")
  /\ OptimizedWithFallback =>
       /\ optimized_model \in {"script", "original"}
       /\ optimized_model = "script" <=>
            \A c \in Range(attempts) \ {"onnx"} : c \notin faults
       /\ \A c \in Range(attempts) \cap faults :
            IF c = "onnx" THEN "ONNX export failed" \in Range(warnings)
            ELSE <<"Could not apply optimization", optimization_level>>
                   \in Range(warnings)
       /\ \A i \in 1 .. Len(calls) :
            calls[i].outcome = "ran" => calls[i].result.model # None

C6_Witness ==
  /\ OptimizedWithFallback
  /\ optimization_level = "aggressive"
  /\ attempts = <<"script", "quantize">>
  /\ "quantize" \in faults
  /\ optimized_model = "original"
  /\ Len(calls) > 0
  /\ calls[Len(calls)].outcome = "ran"

\* C7: once deploy_to_production has returned normally,
\* test_model_files_deployed returns True.
C7_DeployedFilesTestPasses ==
  (dpc = "returned" /\ Len(results) >= 1) => results[1] = TRUE

\* C8: run_all_tests runs the three tests once each in the fixed order
\* whatever the earlier ones returned or raised, records False for a test
\* that raised, and returns 0 exactly when all three returned True, else 1.
C8_RunAllTests ==
  /\ IsPrefix(ran, TestNames)
  /\ Len(results) = Len(outcomes)
  /\ \A i \in 1 .. Len(outcomes) : outcomes[i] = "raised" => results[i] = FALSE
  /\ tpc \in {"verdict", "done"} => ran = TestNames /\ Len(results) = Len(TestNames)
  /\ tpc = "done" =>
       /\ rc \in {0, 1}
       /\ rc = 0 <=> \A i \in 1 .. Len(TestNames) : outcomes[i] = "True"
  /\ tpc # "done" => rc = 0 - 1

C8_Witness ==
  /\ tpc = "done"
  /\ outcomes = <<"raised", "True", "True">>
  /\ rc = 1

C10_ServiceNeverRaises ==
  svc_last # NoCall =>
    /\ svc_last.outcome = "returned"
    /\ IF svc_last.exception # None
         THEN /\ svc_last.result =
                   [emotion |-> "neutral", confidence |-> 500,
                    error |-> svc_last.exception]
              /\ svc_errors # <<>>
              /\ svc_errors[Len(svc_errors)] = <<svc_last.method, svc_last.exception>>
         ELSE /\ "error" \notin DOMAIN svc_last.result
              /\ svc_last.result.emotion \in Range(emotion_labels)

C10_Witness ==
  /\ svc_last # NoCall
  /\ svc_last.method = "detect_emotion_multimodal"
  /\ svc_last.args = <<"happy", "unsized">>
  /\ svc_last.exception = "TypeError"
  /\ svc_last.outcome = "returned"
  /\ svc_calls >= 2

\* C11: when SERVICE_AVAILABLE is False, every invocation of the bridge with
\* two arguments prints the fixed fallback result (emotion neutral, confidence
\* 0.5, model_used <mode>_fallback) and never calls the service.
C11_FallbackWhenUnavailable ==
  (bpc # "start" /\ ~SERVICE_AVAILABLE /\ Len(argv) = 3) =>
     /\ bridge_calls = <<>>
     /\ Len(stdout) = 1
     /\ stdout[1].emotion = "neutral"
     /\ stdout[1].confidence = 500
     /\ stdout[1].model_used = argv[2] \o "_fallback"

\* the modes the if/elif chain of main knows
KnownModes == {"text", "audio", "multimodal", "status"}

\* an invocation with two arguments and an unknown mode has ended
UnknownModeDone == bpc # "start" /\ Len(argv) = 3 /\ argv[2] \notin KnownModes

\* C12 as stated: for every invocation of the bridge whose mode is not one of
\* text, audio, multimodal or status, the output is the error object
\* {"error": "Unknown mode: <mode>"} and no emotion result is reported.
C12_UnknownModeAsStated ==
  UnknownModeDone => stdout = <<[error |-> "Unknown mode: " \o argv[2]]>>

\* C12 amended: for an invocation with two arguments and an unknown mode, the
\* output is the error object {"error": "Unknown mode: <mode>"}, with no
\* emotion result and no service call, when SERVICE_AVAILABLE is True and the
\* second argument is valid JSON; when SERVICE_AVAILABLE is False and the
\* argument is valid JSON the output is the neutral fallback result with
\* model_used <mode>_fallback; when the argument is not valid JSON json.loads
\* raises out of main and nothing is printed.
C12_UnknownMode ==
  UnknownModeDone =>
     /\ bridge_calls = <<>>
     /\ IF JsonLoads(argv[3]).type = "JSONDecodeError"
          THEN bpc = "raised" /\ stdout = <<>>
        ELSE IF SERVICE_AVAILABLE
          THEN bpc = "returned" /\ stdout = <<[error |-> "Unknown mode: " \o argv[2]]>>
        ELSE /\ bpc = "returned"
             /\ Len(stdout) = 1
             /\ stdout[1].emotion = "neutral"
             /\ stdout[1].model_used = argv[2] \o "_fallback"

\* an unknown mode was answered with the error object by an available service
C12_Witness ==
  /\ UnknownModeDone
  /\ SERVICE_AVAILABLE
  /\ argv[2] = "train"
  /\ stdout = <<[error |-> "Unknown mode: train"]>>

\* the entries the closing messages of cleanup announce as kept
AnnouncedKept(e) ==
  \/ e.dir = "models" /\ e.prefix = "best_" /\ e.suffix = ".pth"
  \/ e.dir = "models" /\ e.suffix = ".json"
  \/ e.dir \in {"evaluation_results", "deployment"}

\* the items a run may remove: data/raw, the three non-best model files,
\* cache, __pycache__ and the .log files of logs older than 30 days
MayBeRemoved(e) ==
  \/ e.dir = "data" /\ e.prefix \o e.stem \o e.suffix = "raw"
  \/ /\ e.dir = "models"
     /\ e.prefix \o e.stem \o e.suffix \in
          {"text_emotion_model.pth", "audio_emotion_model.pth",
           "multimodal_emotion_model.pth"}
  \/ e.dir = "" /\ e.prefix \o e.stem \o e.suffix \in {"cache", "__pycache__"}
  \/ e.dir = "logs" /\ e.suffix = ".log" /\ age[e] > 30

\* C13: cleanup_training_files never removes the files it announces as kept
\* (best_*.pth, models/*.json, evaluation_results/, deployment/); an entry
\* that changed is one of data/raw, the three non-best model files, cache,
\* __pycache__ and logs/*.log older than 30 days, or lies inside one of them.
C13_KeptFilesStay ==
  /\ \A e \in Entries : AnnouncedKept(e) => tree[e] = tree0[e]
  /\ \A e \in Entries :
       tree[e] # tree0[e] =>
         \/ MayBeRemoved(e)
         \/ \E d \in Entries : MayBeRemoved(d) /\ tree0[d] = "dir" /\ e \in Below(d)

\* a run without dry_run removed items next to kept files, a recent log file
\* and a file of logs that is not a .log file
C13_Witness ==
  /\ cpc = "done"
  /\ ~dry_run
  /\ removed >= 3
  /\ \E e \in Entries : AnnouncedKept(e) /\ tree[e] = "file"
  /\ \E e \in Entries : e.dir = "logs" /\ e.suffix = ".log" /\ tree0[e] = "file"
                        /\ tree[e] = "absent"
  /\ \E e \in Entries : e.dir = "logs" /\ e.suffix = ".log" /\ age[e] = 30
                        /\ tree[e] = "file"
  /\ \E e \in Entries : e.dir = "logs" /\ e.suffix = ".txt" /\ tree[e] = "file"

\* the existing items a real run attempts to remove, from the tree at the call
ExpectedItems == {e \in Entries : MayBeRemoved(e) /\ tree0[e] # "absent"}

\* the items named by the messages of the for loop
LoggedItems == {clean_log[i][2] : i \in DOMAIN clean_log}

\* C14: cleanup_training_files(dry_run=True) deletes nothing: the file system
\* is unchanged, and the items it counts as removed are exactly the existing
\* items that a real run attempts to remove.
C14_DryRunDeletesNothing ==
  /\ dry_run => tree = tree0
  /\ cpc = "done" =>
       /\ LoggedItems = ExpectedItems
       /\ dry_run =>
            /\ removed = Cardinality(ExpectedItems)
            /\ \A i \in DOMAIN clean_log : clean_log[i][1] = "Would remove"
       /\ ~dry_run =>
            \A i \in DOMAIN clean_log :
              clean_log[i][1] \in {"Removed", "Failed to remove"}

\* a dry run counted existing items and skipped a missing one
C14_Witness ==
  /\ cpc = "done"
  /\ dry_run
  /\ removed >= 3
  /\ skipped >= 1
  /\ \E e \in Entries : e.dir = "logs" /\ e \in LoggedItems

\* the number of rows of a frame with the given emotion
RowsOf(q, e) == Cardinality({i \in DOMAIN q : q[i].emotion = e})

\* the emotions of the rows of a frame
EmotionsOf(q) == {q[i].emotion : i \in DOMAIN q}

C16_HitIsForSameInput ==
  \A i \in DOMAIN calls :
    calls[i].outcome = "hit" => calls[i].result.input = calls[i].input

\* the call the step appends to calls
LastCall == calls'[Len(calls')]

\* C17: on a cache miss, predict runs inference on the ONNX session if it is
\* set, else on the quantized model, else on the optimized model, else on the
\* original model: a lower-priority model is used only when every
\* higher-priority one is unset.
C17_Step ==
  (Len(calls') = Len(calls) + 1 /\ LastCall.outcome = "ran") =>
     /\ LastCall.result.input = LastCall.input
     /\ LastCall.result.model =
          CASE onnx_session # None -> onnx_session
            [] onnx_session = None /\ quantized_model # None -> quantized_model
            [] onnx_session = None /\ quantized_model = None
               /\ optimized_model # None -> optimized_model
            [] OTHER -> "original"
C17_ModelPriority == [][C17_Step]_vars

\* one wrapper ran inference on the original model before optimize_model and
\* on the ONNX session after it, with the other two models set as well
C17_Witness ==
  /\ quantized_model # None
  /\ optimized_model # None
  /\ \E i, j \in DOMAIN calls :
       /\ i < j
       /\ calls[i].outcome = "ran" /\ calls[i].result.model = "original"
       /\ calls[j].outcome = "ran" /\ calls[j].result.model = "session"

\* the predict calls made so far that ended in the given way
CallsEnded(outcome) == {i \in DOMAIN calls : calls[i].outcome = outcome}

\* C18: after any sequence of predict calls, get_performance_stats reports
\* total_predictions equal to the number of inferences run and cache_hits
\* equal to the number of predict calls answered from the prediction cache.
C18_StatsCountHits ==
  inference_times # <<>> =>
     /\ GetPerformanceStats.total_predictions = Cardinality(CallsEnded("ran"))
     /\ GetPerformanceStats.cache_hits = Cardinality(CallsEnded("hit"))

\* the three models of the for loop
SingleModels == {"text_emotion", "audio_emotion", "emotion_tts"}

\* every step of loading model m completed: the file exists, the class was
\* constructed, load_state_dict returned and optimize_model returned
LoadCompleted(m) ==
  /\ files[WeightsFile(m)] # Absent
  /\ load_faults[m] \notin {"construct", "load_state_dict"}
  /\ ~(load_level = "light" /\ load_faults[m] = "script")

\* C19: in load_and_optimize_models a failure on one model does not affect
\* the others: for every optimization level, each of text_emotion,
\* audio_emotion and emotion_tts is in production_models after the call
\* exactly when its weights file exists and its construction, load_state_dict
\* and optimize_model completed without raising; the call never raises.
C19_IndependentLoads ==
  /\ load_pc # "raised"
  /\ load_pc \in {"multimodal", "done"} =>
       \A m \in SingleModels : production_models[m] # NoWrapper <=> LoadCompleted(m)

\* a call at level light ended with one model registered, one whose
\* optimize_model raised and one whose load_state_dict raised
C19_Witness ==
  /\ load_pc = "done"
  /\ load_level = "light"
  /\ \E a, b, c \in SingleModels :
       /\ production_models[a] # NoWrapper
       /\ Exists(WeightsFile(b)) /\ load_faults[b] = "script"
       /\ production_models[b] = NoWrapper
       /\ Exists(WeightsFile(c)) /\ load_faults[c] = "load_state_dict"
       /\ production_models[c] = NoWrapper

\* C20: building and loading the multimodal model leaves the already loaded
\* single-modality models unchanged: after load_state_dict of the multimodal
\* checkpoint, the weights used by the registered text_emotion and
\* audio_emotion models are still those of best_text_emotion_model.pth and
\* best_audio_emotion_model.pth.
C20_SingleModelsUnchanged ==
  (load_pc = "done" /\ production_models["multimodal"] # NoWrapper) =>
     /\ UsedWeights("text_emotion") = [file |-> "best_text_emotion_model.pth", part |-> "all"]
     /\ UsedWeights("audio_emotion") = [file |-> "best_audio_emotion_model.pth", part |-> "all"]

\* the texts of the rows a split holds
TextsOf(split) == {SplitFrame[i].text : i \in split}

\* C21: in the pipeline run with --download --balance, no text occurs in more
\* than one of the train, validation and test splits that
\* prepare_training_data produced.
C21_SplitsShareNoText ==
  bal_pc = "returned" /\ data_pc \in {"prepared", "done"} =>
    /\ TextsOf(data_splits.train) \cap TextsOf(data_splits.val) = {}
    /\ TextsOf(data_splits.train) \cap TextsOf(data_splits.test) = {}
    /\ TextsOf(data_splits.val) \cap TextsOf(data_splits.test) = {}

\* the stages whose artifacts main had saved, and the one that raised
SavedStages == {s \in Classifiers : \E i \in 1 .. Len(log) : log[i] = <<"saved", s>>}

FailedStage == log[Len(log)][2]

\* the stages whose if-block comes after that of s in main
StagesAfter(s) ==
  CASE s = "text" -> {"audio", "multimodal"}
    [] s = "audio" -> {"multimodal"}
    [] s = "multimodal" -> {}

\* the step main takes once a stage has raised
C22_Step ==
  lpc = "raised" /\ mpc \in Classifiers =>
    /\ log' = Append(log, <<"error", mpc>>)
    /\ exit_code' = 1
    /\ mpc' = "exited"
    /\ files' = files

\* the state main ends in after a stage raised
C22_Exited ==
  /\ exit_code = 1 <=> mpc = "exited"
  /\ mpc = "exited" =>
       /\ lpc = "raised"
       /\ log # <<>>
       /\ \A i \in 1 .. Len(log) : log[i][1] = "error" <=> i = Len(log)
       /\ \E i \in 1 .. Len(log) : log[i] = <<"train", FailedStage>>
       /\ \A s \in StagesAfter(FailedStage) :
            \A i \in 1 .. Len(log) : log[i][2] # s
       /\ \A s \in SavedStages :
            /\ files[BestFile(s)] # Absent
            /\ files[ArtifactFile(s)] # Absent

\* C22: if a training stage of emotion_trainer.main raises, the error is
\* logged, the process exits with status 1 and no later stage is started; the
\* model and artifact files that earlier stages wrote are left in place.
C22_ErrorExit == []C22_Exited /\ [][C22_Step]_vars

\* the audio stage raised after the text stage had saved its files
C22_Witness ==
  /\ mpc = "exited"
  /\ exit_code = 1
  /\ FailedStage = "audio"
  /\ "text" \in SavedStages
  /\ files[BestFile("text")] = Written(1)
  /\ files[ArtifactFile("text")] # Absent

====
